---- MODULE Spec2Model ----
(***************************************************************************)
(* The editor core of bicamrl: the reducer                                 *)
(*     reduce : (EditorState, Action) -> (EditorState, Vec<Effect>)        *)
(* of packages/editor/core/src/reducer.rs, over the EditorState of         *)
(* packages/editor/core/src/state.rs.  One action of the model is one arm  *)
(* of the reducer's match, followed by the recomputation of                *)
(* pending_reviews that ends every reduction.                              *)
(*                                                                         *)
(* Next to it the stream ingester connect_sse of                           *)
(* packages/editor/gui/src/sse.rs: a loop that requests the push stream,   *)
(* cuts the bytes it delivers into frames, sends an SSEMessage per         *)
(* recognised frame into an mpsc channel and, when the connection fails or *)
(* ends, sleeps and starts again.                                          *)
(***************************************************************************)
EXTENDS Integers, Sequences, FiniteSets, TLC

VARIABLES
    session_id,       \* EditorState.session_id
    interactions,     \* EditorState.interactions : HashMap<String, Interaction>
    bucket_order,     \* the order in which interactions.values() visits the keys
    draft,            \* EditorState.draft : InteractionDraft
    queue_status,     \* EditorState.queue_status : Option<InteractionQueueStatus>
    pending_reviews,  \* EditorState.pending_reviews : Vec<String>
    connected,        \* EditorState.connected
    error,            \* EditorState.error : Option<String>
    action,           \* the Action of the last reduction
    effects,          \* the Vec<Effect> the last reduction returned
    panicked,         \* TRUE once a reduction has panicked instead of returning
    sse_pc,           \* where connect_sse stands: "request", "stream" or "sleep"
    sse_buffer,       \* connect_sse's buffer: the text not yet cut into frames
    sse_channel,      \* the SSEMessages sent and not yet received by the host
    sse_receiver,     \* TRUE while the Receiver of the channel exists
    sse_sent,         \* the SSEMessages the last step of connect_sse passed to tx.send
    sse_step,         \* the last step of connect_sse
    sse_failures      \* the requests that failed in a row (counted to MaxFailures)

\* The state of the ingester and of its channel.
sseVars == << sse_pc, sse_buffer, sse_channel, sse_receiver, sse_sent,
              sse_step, sse_failures >>

\* The EditorState and the record of the last reduction.
reducerVars == << session_id, interactions, bucket_order, draft, queue_status,
                  pending_reviews, connected, error, action, effects, panicked >>

vars == << session_id, interactions, bucket_order, draft, queue_status,
           pending_reviews, connected, error, action, effects, panicked,
           sse_pc, sse_buffer, sse_channel, sse_receiver, sse_sent,
           sse_step, sse_failures >>

----------------------------------------------------------------------------
(* Bounds of the model. *)

\* The longest history an interaction is let grow to.
MaxHistory == 1

\* from_index and to_index range over 0 .. MaxIndex.
MaxIndex == 3

\* The longest history an interaction is let grow to under HistoryProfile.
MaxLongHistory == 2

\* The most text, in tokens, connect_sse's buffer is let hold.
MaxBuffer == 6

\* The most SSEMessages the channel is let hold unreceived.
MaxChannel == 2

\* Failed requests in a row are counted up to MaxFailures.
MaxFailures == 3

----------------------------------------------------------------------------
(* Option<T>: None is the empty sequence, Some(x) the one-element sequence. *)

None == << >>

Some(x) == << x >>

LocalUser == "user"

JsonNull == "null"

\* Vec::contains
Contains(s, x) == \E i \in 1 .. Len(s) : s[i] = x

\* Vec::last, as an Option
Last(s) == IF Len(s) = 0 THEN None ELSE Some(s[Len(s)])

\* slice::first, as an Option
First(s) == IF Len(s) = 0 THEN None ELSE Some(s[1])

\* Vec::retain(|id| id != x)
Retain(s, x) == SelectSeq(s, LAMBDA y : y # x)

\* Vec::remove(i), 0-based; the caller holds i < len (a panic otherwise)
VecRemove(s, i) == SubSeq(s, 1, i) \o SubSeq(s, i + 2, Len(s))

\* Vec::insert(i, x), 0-based; the caller holds i <= len (a panic otherwise)
VecInsert(s, i, x) == SubSeq(s, 1, i) \o << x >> \o SubSeq(s, i + 1, Len(s))

\* HashMap::insert(k, v)
MapInsert(m, k, v) == [ x \in DOMAIN m \cup {k} |-> IF x = k THEN v ELSE m[x] ]

\* The empty HashMap
EmptyMap == [ x \in {} |-> x ]

\* All orders in which the keys of a set can be visited.
Orders(S) == { s \in [ 1 .. Cardinality(S) -> S ] : \A k \in S : \E i \in DOMAIN s : s[i] = k }

\* The iteration orders a HashMap can have after insert(k, _) when it had order
\* ord: an existing key keeps its bucket, a new key lands in any bucket and may
\* make the table grow and rehash.
OrdersAfterInsert(ord, k) ==
    IF Contains(ord, k) THEN { ord }
    ELSE Orders({ ord[i] : i \in DOMAIN ord } \cup {k})

----------------------------------------------------------------------------
(* EditorState::default and the ClearDraft literal. *)

EmptyDraft ==
    [ content |-> "", interaction_type |-> "Query",
      review_stack |-> << LocalUser >>, metadata |-> EmptyMap ]

DefaultSessionId == "default-session"

----------------------------------------------------------------------------
(* The derived views of state.rs. *)

\* NeedsOurReview, had it compared the first reviewer of the stack.
NeedsOurReviewFirst(i) == ~ i.needs_work /\ First(i.review_stack) = Some(LocalUser)

\* The filter of EditorState::get_review_queue
NeedsOurReview(i) == ~ i.needs_work /\ Last(i.review_stack) = Some(LocalUser)

\* EditorState::get_review_queue, mapped to the ids as reduce does: the
\* interactions passing the filter, in the map's iteration order.
GetReviewQueue(ints, ord) ==
    LET kept == SelectSeq(ord, LAMBDA k : NeedsOurReview(ints[k]))
    IN  [ n \in DOMAIN kept |-> ints[kept[n]].id ]

\* The filter of EditorState::get_processing
IsProcessing(i) == i.needs_work

\* EditorState::get_processing: the interactions passing the filter, in the
\* map's iteration order.
GetProcessing(ints, ord) ==
    LET kept == SelectSeq(ord, LAMBDA k : IsProcessing(ints[k]))
    IN  [ n \in DOMAIN kept |-> ints[kept[n]] ]

\* IsCompleted, had it left out the is_empty test.
IsCompletedAnyStack(i) == ~ i.needs_work

\* The filter of EditorState::get_completed
IsCompleted(i) == ~ i.needs_work /\ Len(i.review_stack) = 0

\* EditorState::get_completed: the interactions passing the filter, in the
\* map's iteration order.
GetCompleted(ints, ord) ==
    LET kept == SelectSeq(ord, LAMBDA k : IsCompleted(ints[k]))
    IN  [ n \in DOMAIN kept |-> ints[kept[n]] ]

----------------------------------------------------------------------------
(* The arms of reduce that compute a value from the old one. *)

\* ReviewStackPush, had it pushed without the contains test.
ReviewStackPushAlways(stack, reviewer_id) == Append(stack, reviewer_id)

\* AddToReviewStack: push unless already contained
ReviewStackPush(stack, reviewer_id) ==
    IF ~ Contains(stack, reviewer_id) THEN Append(stack, reviewer_id) ELSE stack

\* ReviewStackRetain, had it used Vec::swap_remove on the first match: the
\* last reviewer takes the place of the removed one.
ReviewStackSwapRemove(stack, reviewer_id) ==
    IF ~ Contains(stack, reviewer_id) THEN stack
    ELSE LET i == CHOOSE n \in DOMAIN stack :
                    /\ stack[n] = reviewer_id
                    /\ \A m \in 1 .. n - 1 : stack[m] # reviewer_id
         IN  IF i = Len(stack) THEN SubSeq(stack, 1, Len(stack) - 1)
             ELSE SubSeq([ stack EXCEPT ![i] = stack[Len(stack)] ],
                         1, Len(stack) - 1)

\* RemoveFromReviewStack: retain(|id| id != reviewer_id)
ReviewStackRetain(stack, reviewer_id) == Retain(stack, reviewer_id)

\* ReorderInRange, had it let an index equal the length.
ReorderInRangeInclusive(stack, from_index, to_index) ==
    from_index <= Len(stack) /\ to_index <= Len(stack)

\* The guard of the ReorderReviewStack arm
ReorderInRange(stack, from_index, to_index) ==
    from_index < Len(stack) /\ to_index < Len(stack)

\* Whether the arm's remove or insert panics: remove(i) needs i < len, and
\* insert(i, _), on the vector one shorter, needs i <= len - 1.
ReorderPanics(stack, from_index, to_index) ==
    /\ ReorderInRange(stack, from_index, to_index)
    /\ \/ from_index >= Len(stack)
       \/ to_index > Len(stack) - 1

\* ReviewStackMove, had it exchanged the two reviewers (Vec::swap).
ReviewStackSwap(stack, from_index, to_index) ==
    IF ReorderInRange(stack, from_index, to_index)
    THEN [ stack EXCEPT ![from_index + 1] = stack[to_index + 1],
                        ![to_index + 1] = stack[from_index + 1] ]
    ELSE stack

\* ReorderReviewStack: remove(from_index), then insert(to_index, item)
ReviewStackMove(stack, from_index, to_index) ==
    IF ReorderInRange(stack, from_index, to_index)
    THEN VecInsert(VecRemove(stack, from_index), to_index, stack[from_index + 1])
    ELSE stack

\* SubmitInteractionEffects, had it skipped the connection test.
SubmitInteractionEffectsOffline(sid, d, conn) ==
    IF d.content # ""
    THEN << [ type |-> "SubmitInteraction", session_id |-> sid,
              content |-> d.content, interaction_type |-> d.interaction_type,
              metadata |-> d.metadata ] >>
    ELSE << >>

\* SubmitInteractionEffects, had it sent an empty metadata map.
SubmitInteractionEffectsNoMetadata(sid, d, conn) ==
    IF d.content # "" /\ conn
    THEN << [ type |-> "SubmitInteraction", session_id |-> sid,
              content |-> d.content, interaction_type |-> d.interaction_type,
              metadata |-> EmptyMap ] >>
    ELSE << >>

\* The effects of the SubmitInteraction arm
SubmitInteractionEffects(sid, d, conn) ==
    IF d.content # "" /\ conn
    THEN << [ type |-> "SubmitInteraction", session_id |-> sid,
              content |-> d.content, interaction_type |-> d.interaction_type,
              metadata |-> d.metadata ] >>
    ELSE << >>

\* SubmitInteractionError, had it reported nothing for a disconnected session.
SubmitInteractionErrorSilent(d, conn, err) == err

\* The error field after the SubmitInteraction arm
SubmitInteractionError(d, conn, err) ==
    IF d.content # "" /\ conn THEN err
    ELSE IF ~ conn THEN Some("Not connected to server")
    ELSE err

\* SubmitReviewEffects, had it skipped the contains_key test.
SubmitReviewEffectsUnchecked(ints, interaction_id, approved, feedback) ==
    << [ type |-> "SubmitReview", interaction_id |-> interaction_id,
         approved |-> approved, feedback |-> feedback ] >>

\* SubmitReviewEffects, had it dropped the feedback.
SubmitReviewEffectsNoFeedback(ints, interaction_id, approved, feedback) ==
    IF interaction_id \in DOMAIN ints
    THEN << [ type |-> "SubmitReview", interaction_id |-> interaction_id,
              approved |-> approved, feedback |-> None ] >>
    ELSE << >>

\* The effects of the SubmitReview arm
SubmitReviewEffects(ints, interaction_id, approved, feedback) ==
    IF interaction_id \in DOMAIN ints
    THEN << [ type |-> "SubmitReview", interaction_id |-> interaction_id,
              approved |-> approved, feedback |-> feedback ] >>
    ELSE << >>

\* The Event pushed by the InteractionProcessing arm
ProcessingEvent(agent_id, now) ==
    [ agent_id |-> agent_id, action |-> "processing", content |-> JsonNull,
      metadata |-> None, timestamp |-> now ]

\* The Event pushed by the InteractionCompleted arm
CompletedEvent(result, now) ==
    [ agent_id |-> "system", action |-> "completed", content |-> result,
      metadata |-> None, timestamp |-> now ]

\* DisconnectedError, had it cleared the error when no reason is given.
DisconnectedErrorClears(reason, err) ==
    IF reason # None THEN Some("Disconnected: " \o reason[1]) ELSE None

\* The error field after the Disconnected arm
DisconnectedError(reason, err) ==
    IF reason # None THEN Some("Disconnected: " \o reason[1]) ELSE err

----------------------------------------------------------------------------
(* The end of every reduction: the action and its effects are recorded and *)
(* pending_reviews is recomputed from the new interactions.                *)

Returns(a, effs) ==
    /\ action' = a
    /\ effects' = effs
    /\ pending_reviews' = GetReviewQueue(interactions', bucket_order')
    /\ panicked' = FALSE
    /\ UNCHANGED sseVars

----------------------------------------------------------------------------
(* The inputs.  A profile names the finite sets the parameters of the      *)
(* actions are drawn from; every profile offers every action.              *)

\* An Interaction as the server sends it.
Interaction(id, needs_work, review_stack, content) ==
    [ id |-> id, source |-> "user", interaction_type |-> "Query",
      content |-> content, needs_work |-> needs_work,
      review_stack |-> review_stack, history |-> << >>,
      metadata |-> EmptyMap, timestamp |-> 0 ]

\* The smallest inputs that let every action fire: one interaction, one
\* message; the draft edits leave content, type and stack of the default
\* draft as they are.
BaseProfile ==
    [ contents  |-> { "" },
      types     |-> { "Query" },
      added     |-> { "user" },
      removed   |-> { "wake" },
      indices   |-> { 0 },
      metaKeys  |-> { "topic" },
      metaVals  |-> { "rust" },
      ids       |-> { "i1" },
      posted    |-> { Interaction("i1", TRUE, << "user" >>, << >>) },
      agents    |-> { "wake" },
      results   |-> { "done" },
      clock     |-> { 1 },
      maxHistory |-> MaxHistory,
      decisions |-> { TRUE },
      feedbacks |-> { Some("Looks good!") },
      statuses  |-> { [ queue_size |-> 10 ] },
      messages  |-> { "Network error" },
      reasons   |-> { None },
      urls      |-> { "http://localhost:3456" } ]

\* Rich in stored interactions: two ids, review stacks of every shape.
StoreProfile ==
    [ BaseProfile EXCEPT
        !.ids    = { "i1", "i2" },
        !.posted = { Interaction("i1", TRUE, << "user" >>, << >>),
                     Interaction("i1", FALSE, << "user" >>, << >>),
                     Interaction("i1", FALSE, << >>, << >>),
                     Interaction("i1", FALSE, << "wake", "user" >>, << >>),
                     Interaction("i1", FALSE, << "user", "wake" >>, << >>),
                     Interaction("i2", TRUE, << "user" >>, << >>),
                     Interaction("i2", FALSE, << "user" >>, << >>) } ]

\* Rich in draft edits: three reviewers and every index pair.
DraftProfile ==
    [ BaseProfile EXCEPT
        !.added   = { "user", "wake", "sleep" },
        !.removed = { "user", "wake", "sleep" },
        !.indices = 0 .. MaxIndex ]

\* Rich in histories: two stored interactions, each with up to
\* MaxLongHistory events.
HistoryProfile ==
    [ BaseProfile EXCEPT
        !.ids        = { "i1", "i2" },
        !.posted     = { Interaction("i1", TRUE, << "user" >>, << >>),
                         Interaction("i2", FALSE, << "wake", "user" >>, << >>) },
        !.maxHistory = MaxLongHistory ]

\* Two readings of the clock: a reduction that stamps an event can run at
\* either time.
ClockProfile ==
    [ BaseProfile EXCEPT
        !.posted = { Interaction("i1", TRUE, << "user" >>, << >>),
                     Interaction("i1", FALSE, << "user" >>, << >>) },
        !.agents = { "wake", "sleep" },
        !.clock  = { 1, 2 } ]

\* Three stored interactions, two of them awaiting the local user's review:
\* enough for the map's iteration order to show in pending_reviews.
OrderProfile ==
    [ BaseProfile EXCEPT
        !.ids    = { "i1", "i2", "i3" },
        !.posted = { Interaction("i1", FALSE, << "user" >>, << >>),
                     Interaction("i2", FALSE, << "user" >>, << >>),
                     Interaction("i3", TRUE, << "user" >>, << >>) } ]

\* One interaction in every stage of its life: in work or not, with a
\* reviewer left or none.
LifecycleProfile ==
    [ BaseProfile EXCEPT
        !.posted   = { Interaction("i1", TRUE, << "user" >>, << >>),
                       Interaction("i1", TRUE, << >>, << >>),
                       Interaction("i1", FALSE, << "user" >>, << >>),
                       Interaction("i1", FALSE, << >>, << >>) },
        !.contents = { "", "hi" },
        !.reasons  = { None, Some("Network error") } ]

\* Rich in every field of the draft at once: two contents, two types, two
\* reviewers and two metadata keys.
EditProfile ==
    [ BaseProfile EXCEPT
        !.contents = { "", "hi" },
        !.types    = { "Query", "Action" },
        !.added    = { "user", "wake" },
        !.removed  = { "user", "wake" },
        !.indices  = { 0, 1 },
        !.metaKeys = { "topic", "lang" },
        !.metaVals = { "rust", "go" } ]

\* Rich in what a submission reads and writes: the draft's content, type and
\* metadata, the connection and the error.
SubmitProfile ==
    [ BaseProfile EXCEPT
        !.contents  = { "", "hi", "hello" },
        !.types     = { "Query", "Action" },
        !.removed   = { "user" },
        !.metaVals  = { "rust", "go" },
        !.decisions = BOOLEAN,
        !.feedbacks = { None, Some("Looks good!") },
        !.messages  = { "Network error", "Review failed" },
        !.reasons   = { None, Some("Network error") },
        !.urls      = { "http://localhost:3456", "http://host" } ]

----------------------------------------------------------------------------
(* The stream ingester, gui/src/sse.rs.  Text is a sequence of tokens: the *)
(* frame separator "\n\n", the prefix "data: ", a comment starting with    *)
(* ":", JSON texts and text that is no JSON.                               *)

\* The seconds connect_sse sleeps before it requests the stream again.
BackoffSecs == 5

\* The frame separator "\n\n"
FrameEnd == "nn"

\* The JSON texts of the model and the values serde_json parses them to: has
\* the object a "connected" key, its "type", the id at data.interaction.id
\* and the id at data.interactionId.
JsonTexts ==
    [ J_connected |-> [ connected |-> TRUE, type |-> None,
                        interaction_id |-> None, message_of |-> None ],
      J_updated   |-> [ connected |-> FALSE,
                        type |-> Some("interaction:updated"),
                        interaction_id |-> Some("i1"), message_of |-> None ],
      J_created_without_id |->
                      [ connected |-> FALSE,
                        type |-> Some("interaction:created"),
                        interaction_id |-> None, message_of |-> None ],
      J_message   |-> [ connected |-> FALSE, type |-> Some("message:added"),
                        interaction_id |-> None, message_of |-> Some("i2") ],
      J_other     |-> [ connected |-> FALSE, type |-> Some("queue:status"),
                        interaction_id |-> None, message_of |-> None ] ]

\* serde_json::from_str on the text made of the given tokens: one JSON text
\* parses, anything else (no text, text that is no JSON, a JSON text followed
\* by more) does not.
ParseJson(tokens) ==
    IF Len(tokens) = 1 /\ tokens[1] \in DOMAIN JsonTexts
    THEN Some(JsonTexts[tokens[1]])
    ELSE None

\* The SSEMessages
SseConnected == [ type |-> "Connected" ]

SseInteractionUpdate(id, data) ==
    [ type |-> "InteractionUpdate", id |-> id, data |-> data ]

SseError(e) == [ type |-> "Error", error |-> e ]

\* What connect_sse sends for a parsed frame: Connected for an object with a
\* "connected" key, an InteractionUpdate for the four event types that name
\* an interaction, nothing otherwise.
MessagesForJson(json) ==
    IF json.connected THEN << SseConnected >>
    ELSE IF json.type \in { Some("interaction:created"),
                            Some("interaction:updated") }
         THEN IF json.interaction_id # None
              THEN << SseInteractionUpdate(json.interaction_id[1], "interaction") >>
              ELSE << >>
    ELSE IF json.type \in { Some("message:added"), Some("message:updated") }
         THEN IF json.message_of # None
              THEN << SseInteractionUpdate(json.message_of[1], "refetch") >>
              ELSE << >>
    ELSE << >>

\* What connect_sse sends for one message drained from the buffer (the text
\* up to and with the separator): nothing for a comment, the messages of the
\* JSON behind "data: " if it parses, nothing otherwise.
MessagesForFrame(message) ==
    IF message[1] = ":ping" THEN << >>
    ELSE IF message[1] = "data: "
         THEN LET parsed == ParseJson(SubSeq(message, 2, Len(message) - 1))
              IN  IF parsed # None THEN MessagesForJson(parsed[1]) ELSE << >>
    ELSE << >>

\* The loop `while let Some(pos) = buffer.find("\n\n")`: the messages sent
\* for the complete frames of the buffer, in order, and the text left.
RECURSIVE DrainFrames(_)
DrainFrames(buf) ==
    IF ~ Contains(buf, FrameEnd) THEN [ sent |-> << >>, rest |-> buf ]
    ELSE LET pos  == CHOOSE n \in DOMAIN buf :
                        /\ buf[n] = FrameEnd
                        /\ \A m \in 1 .. n - 1 : buf[m] # FrameEnd
             tail == DrainFrames(SubSeq(buf, pos + 1, Len(buf)))
         IN  [ sent |-> MessagesForFrame(SubSeq(buf, 1, pos)) \o tail.sent,
               rest |-> tail.rest ]

\* The chunks the transport delivers: text, or bytes that are no UTF-8.
SseChunks ==
    { [ utf8 |-> TRUE,  text |-> << "data: " >> ],
      [ utf8 |-> TRUE,  text |-> << "J_connected", FrameEnd >> ],
      [ utf8 |-> TRUE,  text |-> << "data: ", "J_connected", FrameEnd >> ],
      [ utf8 |-> TRUE,  text |-> << ":ping", FrameEnd >> ],
      [ utf8 |-> TRUE,  text |-> << "J_updated", FrameEnd,
                                    "data: ", "J_message", FrameEnd >> ],
      [ utf8 |-> TRUE,  text |-> << "data: ", "J_created_without_id", FrameEnd >> ],
      [ utf8 |-> TRUE,  text |-> << "data: ", "J_other", FrameEnd >> ],
      [ utf8 |-> TRUE,  text |-> << "data: ", "garbage", FrameEnd >> ],
      [ utf8 |-> FALSE, text |-> << "data: ", "J_connected", FrameEnd >> ] }

\* The errors of the transport
SseErrors == { "connection refused", "connection reset" }

\* tx.send(msgs): the messages join the channel while its Receiver exists;
\* without it send returns an error, which connect_sse drops.
ChannelAfterSend(channel, receiver, msgs) ==
    IF receiver THEN channel \o msgs ELSE channel

\* The model lets the channel hold MaxChannel messages.
ChannelHasRoom(msgs) ==
    Len(ChannelAfterSend(sse_channel, sse_receiver, msgs)) <= MaxChannel

\* One step of connect_sse: its place afterwards, the buffer, the messages it
\* passed to tx.send and the count of failed requests.
SseMoves(step, pc, buffer, msgs, failures) ==
    /\ ChannelHasRoom(msgs)
    /\ sse_step' = step
    /\ sse_pc' = pc
    /\ sse_buffer' = buffer
    /\ sse_sent' = msgs
    /\ sse_channel' = ChannelAfterSend(sse_channel, sse_receiver, msgs)
    /\ sse_failures' = failures
    /\ UNCHANGED sse_receiver
    /\ UNCHANGED reducerVars

\* connect_sse is spawned with a fresh channel.
SseInit ==
    /\ sse_pc = "request"
    /\ sse_buffer = << >>
    /\ sse_channel = << >>
    /\ sse_receiver = TRUE
    /\ sse_sent = << >>
    /\ sse_step = [ type |-> "Spawned" ]
    /\ sse_failures = 0

\* RequestFailed, had connect_sse returned once nobody receives its messages.
RequestFailedStopsUnheard ==
    \E e \in SseErrors :
        /\ sse_pc = "request"
        /\ SseMoves([ type |-> "RequestFailed", error |-> e ],
                    IF sse_receiver THEN "sleep" ELSE "stopped", << >>,
                    << SseError(e) >>,
                    IF sse_failures < MaxFailures THEN sse_failures + 1
                    ELSE sse_failures)

\* client.get(&url).send() fails: the error is sent and the loop sleeps.
RequestFailed ==
    \E e \in SseErrors :
        /\ sse_pc = "request"
        /\ SseMoves([ type |-> "RequestFailed", error |-> e ], "sleep", << >>,
                    << SseError(e) >>,
                    IF sse_failures < MaxFailures THEN sse_failures + 1
                    ELSE sse_failures)

\* Responded, had the answer to the request been taken for the confirmation.
RespondedAnnouncesConnected ==
    /\ sse_pc = "request"
    /\ SseMoves([ type |-> "Responded" ], "stream", << >>, << SseConnected >>, 0)

\* client.get(&url).send() answers: the byte stream is read with an empty
\* buffer.
Responded ==
    /\ sse_pc = "request"
    /\ SseMoves([ type |-> "Responded" ], "stream", << >>, << >>, 0)

\* stream.next() delivers a chunk: UTF-8 text joins the buffer and every
\* complete frame is drained; other bytes are skipped.
ChunkReceived ==
    \E chunk \in SseChunks :
        LET drained == IF chunk.utf8 THEN DrainFrames(sse_buffer \o chunk.text)
                       ELSE [ sent |-> << >>, rest |-> sse_buffer ]
        IN  /\ sse_pc = "stream"
            /\ Len(sse_buffer \o chunk.text) <= MaxBuffer
            /\ SseMoves([ type |-> "ChunkReceived", chunk |-> chunk ], "stream",
                        drained.rest, drained.sent, sse_failures)

\* stream.next() delivers an error: it is sent and the loop sleeps.
ChunkFailed ==
    \E e \in SseErrors :
        /\ sse_pc = "stream"
        /\ SseMoves([ type |-> "ChunkFailed", error |-> e ], "sleep", << >>,
                    << SseError(e) >>, sse_failures)

\* stream.next() delivers None, the stream has ended: the loop sleeps.
StreamEnded ==
    /\ sse_pc = "stream"
    /\ SseMoves([ type |-> "StreamEnded" ], "sleep", << >>, << >>, sse_failures)

\* The sleep of BackoffSecs is over: the loop requests the stream again.
BackoffElapsed ==
    /\ sse_pc = "sleep"
    /\ SseMoves([ type |-> "BackoffElapsed", secs |-> BackoffSecs ], "request",
                << >>, << >>, sse_failures)

\* The host's Tick takes the next message with rx.try_recv().
HostReceives ==
    /\ sse_receiver
    /\ sse_channel # << >>
    /\ sse_channel' = Tail(sse_channel)
    /\ UNCHANGED << sse_pc, sse_buffer, sse_receiver, sse_sent, sse_step,
                    sse_failures >>
    /\ UNCHANGED reducerVars

\* The host lets go of the Receiver, and of the messages not yet received.
HostDropsReceiver ==
    /\ sse_receiver
    /\ sse_receiver' = FALSE
    /\ sse_channel' = << >>
    /\ UNCHANGED << sse_pc, sse_buffer, sse_sent, sse_step, sse_failures >>
    /\ UNCHANGED reducerVars

\* connect_sse and the host's end of its channel
SseNext ==
    \/ RequestFailed
    \/ Responded
    \/ ChunkReceived
    \/ ChunkFailed
    \/ StreamEnded
    \/ BackoffElapsed
    \/ HostReceives
    \/ HostDropsReceiver

----------------------------------------------------------------------------
(* EditorState::default() *)

Init ==
    /\ session_id = DefaultSessionId
    /\ interactions = EmptyMap
    /\ bucket_order = << >>
    /\ draft = EmptyDraft
    /\ queue_status = None
    /\ pending_reviews = << >>
    /\ connected = FALSE
    /\ error = None
    /\ action = [ type |-> "none" ]
    /\ effects = << >>
    /\ panicked = FALSE
    /\ SseInit

----------------------------------------------------------------------------
(* Draft management *)

UpdateDraftContent(P) ==
    \E content \in P.contents :
        /\ ~ panicked
        /\ draft' = [ draft EXCEPT !.content = content ]
        /\ UNCHANGED << session_id, interactions, bucket_order, queue_status,
                        connected, error >>
        /\ Returns([ type |-> "UpdateDraftContent", content |-> content ], << >>)

SetDraftType(P) ==
    \E interaction_type \in P.types :
        /\ ~ panicked
        /\ draft' = [ draft EXCEPT !.interaction_type = interaction_type ]
        /\ UNCHANGED << session_id, interactions, bucket_order, queue_status,
                        connected, error >>
        /\ Returns([ type |-> "SetDraftType",
                     interaction_type |-> interaction_type ], << >>)

AddToReviewStack(P) ==
    \E reviewer_id \in P.added :
        /\ ~ panicked
        /\ draft' = [ draft EXCEPT
                        !.review_stack = ReviewStackPush(@, reviewer_id) ]
        /\ UNCHANGED << session_id, interactions, bucket_order, queue_status,
                        connected, error >>
        /\ Returns([ type |-> "AddToReviewStack",
                     reviewer_id |-> reviewer_id ], << >>)

RemoveFromReviewStack(P) ==
    \E reviewer_id \in P.removed :
        /\ ~ panicked
        /\ draft' = [ draft EXCEPT
                        !.review_stack = ReviewStackRetain(@, reviewer_id) ]
        /\ UNCHANGED << session_id, interactions, bucket_order, queue_status,
                        connected, error >>
        /\ Returns([ type |-> "RemoveFromReviewStack",
                     reviewer_id |-> reviewer_id ], << >>)

ReorderReviewStack(P) ==
    \E from_index \in P.indices, to_index \in P.indices :
        LET a == [ type |-> "ReorderReviewStack",
                   from_index |-> from_index, to_index |-> to_index ]
        IN  /\ ~ panicked
            /\ IF ReorderPanics(draft.review_stack, from_index, to_index)
               THEN /\ panicked' = TRUE
                    /\ action' = a
                    /\ UNCHANGED << session_id, interactions, bucket_order,
                                    draft, queue_status, pending_reviews,
                                    connected, error, effects >>
                    /\ UNCHANGED sseVars
               ELSE /\ draft' = [ draft EXCEPT
                                    !.review_stack =
                                        ReviewStackMove(@, from_index, to_index) ]
                    /\ UNCHANGED << session_id, interactions, bucket_order,
                                    queue_status, connected, error >>
                    /\ Returns(a, << >>)

\* SetDraftMetadata, had it started a new map for the entry.
SetDraftMetadataReplacesMap(P) ==
    \E key \in P.metaKeys, value \in P.metaVals :
        /\ ~ panicked
        /\ draft' = [ draft EXCEPT !.metadata = MapInsert(EmptyMap, key, value) ]
        /\ UNCHANGED << session_id, interactions, bucket_order, queue_status,
                        connected, error >>
        /\ Returns([ type |-> "SetDraftMetadata", key |-> key,
                     value |-> value ], << >>)

SetDraftMetadata(P) ==
    \E key \in P.metaKeys, value \in P.metaVals :
        /\ ~ panicked
        /\ draft' = [ draft EXCEPT !.metadata = MapInsert(@, key, value) ]
        /\ UNCHANGED << session_id, interactions, bucket_order, queue_status,
                        connected, error >>
        /\ Returns([ type |-> "SetDraftMetadata", key |-> key,
                     value |-> value ], << >>)

\* ClearDraft, had it emptied the content only.
ClearDraftContentOnly ==
    /\ ~ panicked
    /\ draft' = [ draft EXCEPT !.content = "" ]
    /\ UNCHANGED << session_id, interactions, bucket_order, queue_status,
                    connected, error >>
    /\ Returns([ type |-> "ClearDraft" ], << >>)

ClearDraft ==
    /\ ~ panicked
    /\ draft' = EmptyDraft
    /\ UNCHANGED << session_id, interactions, bucket_order, queue_status,
                    connected, error >>
    /\ Returns([ type |-> "ClearDraft" ], << >>)

----------------------------------------------------------------------------
(* Interaction submission *)

SubmitInteraction ==
    /\ ~ panicked
    /\ error' = SubmitInteractionError(draft, connected, error)
    /\ UNCHANGED << session_id, interactions, bucket_order, draft,
                    queue_status, connected >>
    /\ Returns([ type |-> "SubmitInteraction" ],
               SubmitInteractionEffects(session_id, draft, connected))

\* InteractionSubmittedOk, had it reset the whole draft.
InteractionSubmittedOkResetsDraft(P) ==
    \E interaction \in P.posted :
        /\ ~ panicked
        /\ interactions' = MapInsert(interactions, interaction.id, interaction)
        /\ bucket_order' \in OrdersAfterInsert(bucket_order, interaction.id)
        /\ draft' = EmptyDraft
        /\ error' = None
        /\ UNCHANGED << session_id, queue_status, connected >>
        /\ Returns([ type |-> "InteractionSubmitted", ok |-> TRUE,
                     interaction |-> interaction ], << >>)

\* InteractionSubmittedOk, had it left the draft's content in place.
InteractionSubmittedOkKeepsDraft(P) ==
    \E interaction \in P.posted :
        /\ ~ panicked
        /\ interactions' = MapInsert(interactions, interaction.id, interaction)
        /\ bucket_order' \in OrdersAfterInsert(bucket_order, interaction.id)
        /\ error' = None
        /\ UNCHANGED << session_id, draft, queue_status, connected >>
        /\ Returns([ type |-> "InteractionSubmitted", ok |-> TRUE,
                     interaction |-> interaction ], << >>)

InteractionSubmittedOk(P) ==
    \E interaction \in P.posted :
        /\ ~ panicked
        /\ interactions' = MapInsert(interactions, interaction.id, interaction)
        /\ bucket_order' \in OrdersAfterInsert(bucket_order, interaction.id)
        /\ draft' = [ draft EXCEPT !.content = "" ]
        /\ error' = None
        /\ UNCHANGED << session_id, queue_status, connected >>
        /\ Returns([ type |-> "InteractionSubmitted", ok |-> TRUE,
                     interaction |-> interaction ], << >>)

\* InteractionSubmittedErr, had it cleared the draft's content as the Ok arm does.
InteractionSubmittedErrClearsDraft(P) ==
    \E e \in P.messages :
        /\ ~ panicked
        /\ error' = Some(e)
        /\ draft' = [ draft EXCEPT !.content = "" ]
        /\ UNCHANGED << session_id, interactions, bucket_order,
                        queue_status, connected >>
        /\ Returns([ type |-> "InteractionSubmitted", ok |-> FALSE,
                     error |-> e ], << >>)

\* InteractionSubmittedErr, had it taken the failure for a lost connection.
InteractionSubmittedErrDisconnects(P) ==
    \E e \in P.messages :
        /\ ~ panicked
        /\ error' = Some(e)
        /\ connected' = FALSE
        /\ UNCHANGED << session_id, interactions, bucket_order, draft,
                        queue_status >>
        /\ Returns([ type |-> "InteractionSubmitted", ok |-> FALSE,
                     error |-> e ], << >>)

\* InteractionSubmittedErr, had it sent the draft again by itself.
InteractionSubmittedErrResubmits(P) ==
    \E e \in P.messages :
        /\ ~ panicked
        /\ error' = Some(e)
        /\ UNCHANGED << session_id, interactions, bucket_order, draft,
                        queue_status, connected >>
        /\ Returns([ type |-> "InteractionSubmitted", ok |-> FALSE,
                     error |-> e ],
                   SubmitInteractionEffects(session_id, draft, connected))

InteractionSubmittedErr(P) ==
    \E e \in P.messages :
        /\ ~ panicked
        /\ error' = Some(e)
        /\ UNCHANGED << session_id, interactions, bucket_order, draft,
                        queue_status, connected >>
        /\ Returns([ type |-> "InteractionSubmitted", ok |-> FALSE,
                     error |-> e ], << >>)

----------------------------------------------------------------------------
(* Review actions *)

SubmitReview(P) ==
    \E interaction_id \in P.ids, approved \in P.decisions,
       feedback \in P.feedbacks :
        /\ ~ panicked
        /\ UNCHANGED << session_id, interactions, bucket_order, draft,
                        queue_status, connected, error >>
        /\ Returns([ type |-> "SubmitReview", interaction_id |-> interaction_id,
                     approved |-> approved, feedback |-> feedback ],
                   SubmitReviewEffects(interactions, interaction_id, approved,
                                       feedback))

\* ReviewSubmittedOk, had it left the error in place.
ReviewSubmittedOkKeepsError ==
    /\ ~ panicked
    /\ UNCHANGED << session_id, interactions, bucket_order, draft,
                    queue_status, connected, error >>
    /\ Returns([ type |-> "ReviewSubmitted", ok |-> TRUE ], << >>)

ReviewSubmittedOk ==
    /\ ~ panicked
    /\ error' = None
    /\ UNCHANGED << session_id, interactions, bucket_order, draft,
                    queue_status, connected >>
    /\ Returns([ type |-> "ReviewSubmitted", ok |-> TRUE ], << >>)

\* ReviewSubmittedErr, had it treated the failure as a lost connection.
ReviewSubmittedErrDisconnects(P) ==
    \E e \in P.messages :
        /\ ~ panicked
        /\ error' = Some(e)
        /\ connected' = FALSE
        /\ UNCHANGED << session_id, interactions, bucket_order, draft,
                        queue_status >>
        /\ Returns([ type |-> "ReviewSubmitted", ok |-> FALSE, error |-> e ],
                   << >>)

ReviewSubmittedErr(P) ==
    \E e \in P.messages :
        /\ ~ panicked
        /\ error' = Some(e)
        /\ UNCHANGED << session_id, interactions, bucket_order, draft,
                        queue_status, connected >>
        /\ Returns([ type |-> "ReviewSubmitted", ok |-> FALSE, error |-> e ],
                   << >>)

----------------------------------------------------------------------------
(* Queue status *)

\* UpdateQueueStatus, had a fresh status also cleared the error.
UpdateQueueStatusClearsError(P) ==
    \E status \in P.statuses :
        /\ ~ panicked
        /\ queue_status' = Some(status)
        /\ error' = None
        /\ UNCHANGED << session_id, interactions, bucket_order, draft,
                        connected >>
        /\ Returns([ type |-> "UpdateQueueStatus", status |-> status ], << >>)

UpdateQueueStatus(P) ==
    \E status \in P.statuses :
        /\ ~ panicked
        /\ queue_status' = Some(status)
        /\ UNCHANGED << session_id, interactions, bucket_order, draft,
                        connected, error >>
        /\ Returns([ type |-> "UpdateQueueStatus", status |-> status ], << >>)

----------------------------------------------------------------------------
(* Real-time events *)

\* InteractionPosted, had it kept the history of the entry it replaces.
InteractionPostedKeepsHistory(P) ==
    \E interaction \in P.posted :
        /\ ~ panicked
        /\ interactions' =
             MapInsert(interactions, interaction.id,
                       IF interaction.id \in DOMAIN interactions
                       THEN [ interaction EXCEPT
                                !.history = interactions[interaction.id].history ]
                       ELSE interaction)
        /\ bucket_order' \in OrdersAfterInsert(bucket_order, interaction.id)
        /\ UNCHANGED << session_id, draft, queue_status, connected, error >>
        /\ Returns([ type |-> "InteractionPosted",
                     interaction |-> interaction ], << >>)

\* InteractionPosted, had it stored the interaction under its source.
InteractionPostedUnderSource(P) ==
    \E interaction \in P.posted :
        /\ ~ panicked
        /\ interactions' = MapInsert(interactions, interaction.source,
                                     interaction)
        /\ bucket_order' \in OrdersAfterInsert(bucket_order,
                                                interaction.source)
        /\ UNCHANGED << session_id, draft, queue_status, connected, error >>
        /\ Returns([ type |-> "InteractionPosted",
                     interaction |-> interaction ], << >>)

InteractionPosted(P) ==
    \E interaction \in P.posted :
        /\ ~ panicked
        /\ interactions' = MapInsert(interactions, interaction.id, interaction)
        /\ bucket_order' \in OrdersAfterInsert(bucket_order, interaction.id)
        /\ UNCHANGED << session_id, draft, queue_status, connected, error >>
        /\ Returns([ type |-> "InteractionPosted",
                     interaction |-> interaction ], << >>)

\* AfterProcessing, had it put the event in front of the history.
AfterProcessingPrepends(ints, interaction_id, agent_id, now) ==
    IF interaction_id \in DOMAIN ints
    THEN [ ints EXCEPT ![interaction_id].history =
                << ProcessingEvent(agent_id, now) >> \o @ ]
    ELSE ints

\* AfterProcessing, had it also marked the interaction as needing work.
AfterProcessingMarksWork(ints, interaction_id, agent_id, now) ==
    IF interaction_id \in DOMAIN ints
    THEN [ ints EXCEPT ![interaction_id].needs_work = TRUE,
                       ![interaction_id].history =
                            Append(@, ProcessingEvent(agent_id, now)) ]
    ELSE ints

\* The interactions after the InteractionProcessing arm
AfterProcessing(ints, interaction_id, agent_id, now) ==
    IF interaction_id \in DOMAIN ints
    THEN [ ints EXCEPT ![interaction_id].history =
                Append(@, ProcessingEvent(agent_id, now)) ]
    ELSE ints

\* AfterCompleted, had it also taken the top reviewer off the stack.
AfterCompletedPopsReviewer(ints, interaction_id, result, now) ==
    IF interaction_id \in DOMAIN ints
    THEN [ ints EXCEPT ![interaction_id].needs_work = FALSE,
                       ![interaction_id].review_stack =
                            IF Len(@) > 0 THEN SubSeq(@, 1, Len(@) - 1) ELSE @,
                       ![interaction_id].history =
                            Append(@, CompletedEvent(result, now)) ]
    ELSE ints

\* AfterCompleted, had it replaced the history by the completion event.
AfterCompletedReplacesHistory(ints, interaction_id, result, now) ==
    IF interaction_id \in DOMAIN ints
    THEN [ ints EXCEPT ![interaction_id].needs_work = FALSE,
                       ![interaction_id].history =
                            << CompletedEvent(result, now) >> ]
    ELSE ints

\* The interactions after the InteractionCompleted arm
AfterCompleted(ints, interaction_id, result, now) ==
    IF interaction_id \in DOMAIN ints
    THEN [ ints EXCEPT ![interaction_id].needs_work = FALSE,
                       ![interaction_id].history =
                            Append(@, CompletedEvent(result, now)) ]
    ELSE ints

\* The model lets a history grow to the profile's maxHistory events.
HistoryHasRoom(P, interaction_id) ==
    interaction_id \in DOMAIN interactions
        => Len(interactions[interaction_id].history) < P.maxHistory

\* InteractionProcessing, had it reported a push for an unknown id.
InteractionProcessingReportsUnknown(P) ==
    \E interaction_id \in P.ids, agent_id \in P.agents,
       now \in P.clock :
        /\ ~ panicked
        /\ HistoryHasRoom(P, interaction_id)
        /\ interactions' = AfterProcessing(interactions, interaction_id,
                                           agent_id, now)
        /\ error' = IF interaction_id \in DOMAIN interactions THEN error
                    ELSE Some("Unknown interaction")
        /\ UNCHANGED << session_id, bucket_order, draft, queue_status,
                        connected >>
        /\ Returns([ type |-> "InteractionProcessing",
                     interaction_id |-> interaction_id,
                     agent_id |-> agent_id ], << >>)

InteractionProcessing(P) ==
    \E interaction_id \in P.ids, agent_id \in P.agents,
       now \in P.clock :
        /\ ~ panicked
        /\ HistoryHasRoom(P, interaction_id)
        /\ interactions' = AfterProcessing(interactions, interaction_id,
                                           agent_id, now)
        /\ UNCHANGED << session_id, bucket_order, draft, queue_status,
                        connected, error >>
        /\ Returns([ type |-> "InteractionProcessing",
                     interaction_id |-> interaction_id,
                     agent_id |-> agent_id ], << >>)

InteractionCompleted(P) ==
    \E interaction_id \in P.ids, result \in P.results,
       now \in P.clock :
        /\ ~ panicked
        /\ HistoryHasRoom(P, interaction_id)
        /\ interactions' = AfterCompleted(interactions, interaction_id,
                                          result, now)
        /\ UNCHANGED << session_id, bucket_order, draft, queue_status,
                        connected, error >>
        /\ Returns([ type |-> "InteractionCompleted",
                     interaction_id |-> interaction_id,
                     result |-> result ], << >>)

----------------------------------------------------------------------------
(* Error handling *)

\* SetError, had it kept the first error until it is cleared.
SetErrorKeepsFirst(P) ==
    \E message \in P.messages :
        /\ ~ panicked
        /\ error' = IF error = None THEN Some(message) ELSE error
        /\ UNCHANGED << session_id, interactions, bucket_order, draft,
                        queue_status, connected >>
        /\ Returns([ type |-> "SetError", message |-> message ], << >>)

SetError(P) ==
    \E message \in P.messages :
        /\ ~ panicked
        /\ error' = Some(message)
        /\ UNCHANGED << session_id, interactions, bucket_order, draft,
                        queue_status, connected >>
        /\ Returns([ type |-> "SetError", message |-> message ], << >>)

ClearError ==
    /\ ~ panicked
    /\ error' = None
    /\ UNCHANGED << session_id, interactions, bucket_order, draft,
                    queue_status, connected >>
    /\ Returns([ type |-> "ClearError" ], << >>)

----------------------------------------------------------------------------
(* Connection management *)

\* Connect, had it marked the session connected at once.
ConnectSetsConnected(P) ==
    \E server_url \in P.urls :
        /\ ~ panicked
        /\ connected' = TRUE
        /\ UNCHANGED << session_id, interactions, bucket_order, draft,
                        queue_status, error >>
        /\ Returns([ type |-> "Connect", server_url |-> server_url ],
                   << [ type |-> "ConnectToStream", server_url |-> server_url,
                        session_id |-> session_id ] >>)

Connect(P) ==
    \E server_url \in P.urls :
        /\ ~ panicked
        /\ UNCHANGED << session_id, interactions, bucket_order, draft,
                        queue_status, connected, error >>
        /\ Returns([ type |-> "Connect", server_url |-> server_url ],
                   << [ type |-> "ConnectToStream", server_url |-> server_url,
                        session_id |-> session_id ] >>)

\* Connected, had it fetched the status on the first establishment only.
ConnectedFetchesOnce ==
    /\ ~ panicked
    /\ connected' = TRUE
    /\ error' = None
    /\ UNCHANGED << session_id, interactions, bucket_order, draft,
                    queue_status >>
    /\ Returns([ type |-> "Connected" ],
               IF connected THEN << >> ELSE << [ type |-> "FetchQueueStatus" ] >>)

Connected ==
    /\ ~ panicked
    /\ connected' = TRUE
    /\ error' = None
    /\ UNCHANGED << session_id, interactions, bucket_order, draft,
                    queue_status >>
    /\ Returns([ type |-> "Connected" ], << [ type |-> "FetchQueueStatus" ] >>)

Disconnected(P) ==
    \E reason \in P.reasons :
        /\ ~ panicked
        /\ connected' = FALSE
        /\ error' = DisconnectedError(reason, error)
        /\ UNCHANGED << session_id, interactions, bucket_order, draft,
                        queue_status >>
        /\ Returns([ type |-> "Disconnected", reason |-> reason ], << >>)

----------------------------------------------------------------------------
(* reduce: one arm per reduction *)

Next(P) ==
    \/ UpdateDraftContent(P)
    \/ SetDraftType(P)
    \/ AddToReviewStack(P)
    \/ RemoveFromReviewStack(P)
    \/ ReorderReviewStack(P)
    \/ SetDraftMetadata(P)
    \/ ClearDraft
    \/ SubmitInteraction
    \/ InteractionSubmittedOk(P)
    \/ InteractionSubmittedErr(P)
    \/ SubmitReview(P)
    \/ ReviewSubmittedOk
    \/ ReviewSubmittedErr(P)
    \/ UpdateQueueStatus(P)
    \/ InteractionPosted(P)
    \/ InteractionProcessing(P)
    \/ InteractionCompleted(P)
    \/ SetError(P)
    \/ ClearError
    \/ Connect(P)
    \/ Connected
    \/ Disconnected(P)

\* The reducer fed with the inputs of StoreProfile.
Spec == Init /\ [][Next(StoreProfile)]_vars

\* The reducer fed with the inputs of DraftProfile.
SpecDraft == Init /\ [][Next(DraftProfile)]_vars

\* The reducer fed with the inputs of SubmitProfile.
SpecSubmit == Init /\ [][Next(SubmitProfile)]_vars

\* The reducer fed with the inputs of HistoryProfile.
SpecHistory == Init /\ [][Next(HistoryProfile)]_vars

\* The reducer fed with the inputs of ClockProfile.
SpecClock == Init /\ [][Next(ClockProfile)]_vars

\* The reducer fed with the inputs of OrderProfile.
SpecOrder == Init /\ [][Next(OrderProfile)]_vars

\* The reducer fed with the inputs of LifecycleProfile.
SpecLifecycle == Init /\ [][Next(LifecycleProfile)]_vars

\* The reducer fed with the inputs of EditProfile.
SpecEdit == Init /\ [][Next(EditProfile)]_vars

\* The ingester alone, the EditorState at its default.
SpecIngest == Init /\ [][SseNext]_vars

\* The ingester with the fairness its runtime gives it: a sleep that has
\* started comes to its end.
SpecIngestFair == Init /\ [][SseNext]_vars /\ WF_vars(BackoffElapsed)

----------------------------------------------------------------------------
(* The claims. *)

\* The ids in pending_reviews.
PendingIds == { pending_reviews[n] : n \in DOMAIN pending_reviews }

\* The fields of EditorState other than pending_reviews keep their values.
FieldsUnchanged ==
    UNCHANGED << session_id, interactions, draft, queue_status, connected, error >>

\* C1, as stated: after every reduction pending_reviews holds exactly the ids
\* of the stored interactions with needs_work false whose review_stack has the
\* local user as its FIRST element.
C1_PendingReviewsAreHeadOfStack ==
    PendingIds = { interactions[k].id : k \in
                     { x \in DOMAIN interactions :
                         /\ ~ interactions[x].needs_work
                         /\ First(interactions[x].review_stack) = Some(LocalUser) } }

\* C1, amended: after every reduction pending_reviews holds exactly the ids of
\* the stored interactions with needs_work false whose review_stack has the
\* local user as its LAST element (the top of the stack), each id once.
C1_PendingReviewsAreTopOfStack ==
    /\ PendingIds = { interactions[k].id : k \in
                        { x \in DOMAIN interactions :
                            /\ ~ interactions[x].needs_work
                            /\ Last(interactions[x].review_stack) = Some(LocalUser) } }
    /\ Len(pending_reviews) = Cardinality(PendingIds)

\* C1 witness: two reviewers on a stored stack, the user on top; the id is
\* pending, next to a second pending id.
C1_Witness ==
    /\ "i1" \in DOMAIN interactions
    /\ interactions["i1"].review_stack = << "wake", "user" >>
    /\ Len(pending_reviews) = 2

\* C2: reducing InteractionSubmitted(Err(e)) sets error to Some(e), leaves the
\* draft and the interactions as they were and emits no effect.
C2_SubmitErrorKeepsDraft ==
    [][ (action'.type = "InteractionSubmitted" /\ ~ action'.ok)
            => /\ error' = Some(action'.error)
               /\ draft' = draft
               /\ interactions' = interactions
               /\ effects' = << >> ]_vars

\* C2 witness: a failed submission has been reduced and the typed content, a
\* changed type and metadata are still in the draft.
C2_Witness ==
    /\ action.type = "InteractionSubmitted"
    /\ ~ action.ok
    /\ error = Some(action.error)
    /\ draft.content = "hello"
    /\ draft.interaction_type = "Action"
    /\ draft.metadata # EmptyMap
    /\ interactions # EmptyMap

\* C3, as stated: SubmitInteraction with empty draft.content emits no effect
\* and leaves error at its previous value, connected or not.
C3_EmptySubmitIsSilent ==
    [][ (action'.type = "SubmitInteraction" /\ draft.content = "")
            => /\ effects' = << >>
               /\ error' = error ]_vars

\* C4: SubmitInteraction with non-empty content and connected emits exactly one
\* SubmitInteraction effect built from session_id and the draft, and changes
\* no field of the state.
C4_SubmitEmitsRequest ==
    [][ (action'.type = "SubmitInteraction" /\ draft.content # "" /\ connected)
            => /\ effects' = << [ type |-> "SubmitInteraction",
                                  session_id |-> session_id,
                                  content |-> draft.content,
                                  interaction_type |-> draft.interaction_type,
                                  metadata |-> draft.metadata ] >>
               /\ FieldsUnchanged
               /\ pending_reviews' = pending_reviews ]_vars

\* C4 witness: a request went out for a draft with metadata, with an error
\* standing.
C4_Witness ==
    /\ action.type = "SubmitInteraction"
    /\ Len(effects) = 1
    /\ effects[1].content = "hello"
    /\ effects[1].interaction_type = "Action"
    /\ effects[1].metadata # EmptyMap
    /\ error # None

C6_SubmitOkStoresAndClears ==
    [][ (action'.type = "InteractionSubmitted" /\ action'.ok)
            => /\ DOMAIN interactions' = DOMAIN interactions \cup { action'.interaction.id }
               /\ interactions'[action'.interaction.id] = action'.interaction
               /\ draft' = [ draft EXCEPT !.content = "" ]
               /\ error' = None
               /\ effects' = << >> ]_vars

\* C6 witness: a successful submission has been reduced and the draft keeps a
\* changed type, an emptied review stack and metadata.
C6_Witness ==
    /\ action.type = "InteractionSubmitted"
    /\ action.ok
    /\ interactions[action.interaction.id] = action.interaction
    /\ draft.content = ""
    /\ draft.interaction_type = "Action"
    /\ draft.review_stack = << >>
    /\ draft.metadata # EmptyMap

C8_ReduceNeverPanics == ~ panicked

\* C8 witness: ReorderReviewStack has been reduced on the empty review stack.
C8_Witness ==
    /\ action.type = "ReorderReviewStack"
    /\ draft.review_stack = << >>
    /\ ~ panicked

\* C9: InteractionPosted(i) leaves interactions[i.id] = i and every other
\* entry as it was, and reducing it a second time changes nothing.
C9_PostedIsIdempotentUpsert ==
    [][ action'.type = "InteractionPosted"
            => /\ interactions' =
                    [ k \in DOMAIN interactions \cup { action'.interaction.id } |->
                        IF k = action'.interaction.id THEN action'.interaction
                        ELSE interactions[k] ]
               /\ action = action'
                    => /\ FieldsUnchanged
                       /\ pending_reviews' = pending_reviews
                       /\ effects' = effects ]_vars

\* C9 witness: a push replaced an entry while another entry, with an event in
\* its history, stayed.
C9_Witness ==
    /\ action.type = "InteractionPosted"
    /\ interactions[action.interaction.id] = action.interaction
    /\ \E k \in DOMAIN interactions :
          /\ k # action.interaction.id
          /\ Len(interactions[k].history) = 1

\* C10: SubmitReview naming a stored interaction emits exactly one
\* SubmitReview effect with the action's interaction_id, decision and
\* feedback, and changes no field of the state.
C10_SubmitReviewEmitsRequest ==
    [][ (action'.type = "SubmitReview" /\ action'.interaction_id \in DOMAIN interactions)
            => /\ effects' = << [ type |-> "SubmitReview",
                                  interaction_id |-> action'.interaction_id,
                                  approved |-> action'.approved,
                                  feedback |-> action'.feedback ] >>
               /\ FieldsUnchanged
               /\ pending_reviews' = pending_reviews ]_vars

\* C10 witness: a rejection with feedback went out for an interaction that is
\* still pending with the user on its stack.
C10_Witness ==
    /\ action.type = "SubmitReview"
    /\ ~ action.approved
    /\ action.feedback # None
    /\ Len(effects) = 1
    /\ pending_reviews = << action.interaction_id >>
    /\ interactions[action.interaction_id].review_stack = << LocalUser >>

\* The history new is the history old followed by exactly one event.
AppendsOne(old, new) ==
    /\ Len(new) = Len(old) + 1
    /\ SubSeq(new, 1, Len(old)) = old

\* Every stored interaction other than id is as it was, and no key is added
\* or removed.
OthersUnchanged(id) ==
    /\ DOMAIN interactions' = DOMAIN interactions
    /\ \A k \in DOMAIN interactions :
          k # id => interactions'[k] = interactions[k]

\* C11: InteractionCompleted naming a stored interaction sets its needs_work
\* to false and appends exactly one event {actor "system", action "completed",
\* content = result} after the existing history; its review_stack and every
\* other interaction stay as they were and no effect is emitted.
C11_CompletedAppendsEvent ==
    [][ (action'.type = "InteractionCompleted"
            /\ action'.interaction_id \in DOMAIN interactions)
            => LET id  == action'.interaction_id
                   old == interactions[id]
                   new == interactions'[id]
                   ev  == new.history[Len(new.history)]
               IN  /\ OthersUnchanged(id)
                   /\ ~ new.needs_work
                   /\ AppendsOne(old.history, new.history)
                   /\ ev.agent_id = "system"
                   /\ ev.action = "completed"
                   /\ ev.content = action'.result
                   /\ new.review_stack = old.review_stack
                   /\ new.id = old.id
                   /\ effects' = << >> ]_vars

\* C11 witness: a completion has been appended after an earlier processing
\* event, on an interaction that was posted as needing work, next to a second
\* stored interaction.
C11_Witness ==
    /\ action.type = "InteractionCompleted"
    /\ action.interaction_id = "i1"
    /\ "i1" \in DOMAIN interactions
    /\ "i2" \in DOMAIN interactions
    /\ Len(interactions["i1"].history) = 2
    /\ interactions["i1"].history[1].action = "processing"
    /\ interactions["i1"].history[2].action = "completed"
    /\ ~ interactions["i1"].needs_work
    /\ interactions["i1"].review_stack = << "user" >>

\* C12: InteractionProcessing naming a stored interaction appends exactly one
\* event {actor = agent_id, action "processing", content null} after the
\* existing history, leaves needs_work and review_stack of the interaction as
\* they were and emits no effect.
C12_ProcessingAppendsEvent ==
    [][ (action'.type = "InteractionProcessing"
            /\ action'.interaction_id \in DOMAIN interactions)
            => LET id  == action'.interaction_id
                   old == interactions[id]
                   new == interactions'[id]
                   ev  == new.history[Len(new.history)]
               IN  /\ AppendsOne(old.history, new.history)
                   /\ ev.agent_id = action'.agent_id
                   /\ ev.action = "processing"
                   /\ ev.content = JsonNull
                   /\ new.needs_work = old.needs_work
                   /\ new.review_stack = old.review_stack
                   /\ effects' = << >> ]_vars

\* C12 witness: a processing event has been appended after a completion, on an
\* interaction that stays completed with its two reviewers.
C12_Witness ==
    /\ action.type = "InteractionProcessing"
    /\ action.interaction_id = "i2"
    /\ "i2" \in DOMAIN interactions
    /\ Len(interactions["i2"].history) = 2
    /\ interactions["i2"].history[1].action = "completed"
    /\ interactions["i2"].history[2].agent_id = action.agent_id
    /\ ~ interactions["i2"].needs_work
    /\ interactions["i2"].review_stack = << "wake", "user" >>

\* C13: Connect(server_url) emits exactly one ConnectToStream effect carrying
\* server_url and the state's session_id and changes no state field;
\* connected turns from false to true in a Connected reduction only.
C13_ConnectOnlyRequests ==
    [][ /\ (action'.type = "Connect")
            => /\ effects' = << [ type |-> "ConnectToStream",
                                  server_url |-> action'.server_url,
                                  session_id |-> session_id ] >>
               /\ FieldsUnchanged
               /\ pending_reviews' = pending_reviews
        /\ (~ connected /\ connected') => action'.type = "Connected" ]_vars

\* C13 witness: a connection to the second server has been requested while
\* the session is disconnected and shows an error.
C13_Witness ==
    /\ action.type = "Connect"
    /\ action.server_url = "http://host"
    /\ effects = << [ type |-> "ConnectToStream", server_url |-> "http://host",
                      session_id |-> "default-session" ] >>
    /\ ~ connected
    /\ error # None
    /\ draft.content # ""

Reviewers(stack) == { stack[n] : n \in DOMAIN stack }

\* How many times x occurs in the stack.
Occurrences(stack, x) == Cardinality({ n \in DOMAIN stack : stack[n] = x })

\* C16: AddToReviewStack(x) appends x at the end of draft.review_stack only
\* when x is not already present, otherwise the stack is unchanged; applying
\* it a second time changes nothing, and the rest of the draft is untouched.
C16_AddReviewerIdempotent ==
    [][ /\ (action'.type = "AddToReviewStack")
            => LET x   == action'.reviewer_id
                   old == draft.review_stack
                   new == draft'.review_stack
               IN  /\ x \in Reviewers(old) => new = old
                   /\ x \notin Reviewers(old) => new = old \o << x >>
                   /\ Occurrences(new, x) = 1
                   /\ draft' = [ draft EXCEPT !.review_stack = new ]
                   /\ effects' = << >>
        /\ (action.type = "AddToReviewStack" /\ action' = action)
            => draft' = draft ]_vars

\* C16 witness: a third reviewer has been appended at the end of the stack.
C16_Witness ==
    /\ action.type = "AddToReviewStack"
    /\ action.reviewer_id = "sleep"
    /\ draft.review_stack = << "user", "wake", "sleep" >>

\* The reviewers of new stand in the order they have in old.
KeepsOrder(old, new) ==
    \A i, j \in DOMAIN new :
        i < j => \E a, b \in DOMAIN old :
                    a < b /\ old[a] = new[i] /\ old[b] = new[j]

\* C17: RemoveFromReviewStack(x) yields a draft review_stack that no longer
\* contains x and in which the remaining reviewers keep their previous
\* relative order; if x was absent the stack is unchanged.
C17_RemoveReviewerKeepsOrder ==
    [][ (action'.type = "RemoveFromReviewStack")
            => LET x   == action'.reviewer_id
                   old == draft.review_stack
                   new == draft'.review_stack
               IN  /\ x \notin Reviewers(new)
                   /\ Reviewers(new) = Reviewers(old) \ { x }
                   /\ Len(new) = Len(old) - Occurrences(old, x)
                   /\ KeepsOrder(old, new)
                   /\ x \notin Reviewers(old) => new = old
                   /\ draft' = [ draft EXCEPT !.review_stack = new ]
                   /\ effects' = << >> ]_vars

\* C17 witness: the first of three reviewers has been removed and the other
\* two stand in the order they were added.
C17_Witness ==
    /\ action.type = "RemoveFromReviewStack"
    /\ action.reviewer_id = "user"
    /\ draft.review_stack = << "wake", "sleep" >>

\* C18: ReorderReviewStack(from, to) with either index >= the length of
\* draft.review_stack leaves the stack unchanged and sets no error; with both
\* indices in range the element at from stands at to, and the other reviewers
\* keep their order: a permutation of the same reviewers, of the same length.
C18_ReorderMovesOrIgnores ==
    [][ (action'.type = "ReorderReviewStack")
            => LET from == action'.from_index
                   to   == action'.to_index
                   old  == draft.review_stack
                   new  == draft'.review_stack
               IN  /\ ~ panicked'
                   /\ error' = error
                   /\ effects' = << >>
                   /\ draft' = [ draft EXCEPT !.review_stack = new ]
                   /\ (from >= Len(old) \/ to >= Len(old)) => new = old
                   /\ (from < Len(old) /\ to < Len(old))
                        => /\ Len(new) = Len(old)
                           /\ new[to + 1] = old[from + 1]
                           /\ VecRemove(new, to) = VecRemove(old, from)
                           /\ Reviewers(new) = Reviewers(old) ]_vars

\* C18 witness: the first of three reviewers has been moved to the end.
C18_Witness ==
    /\ action.type = "ReorderReviewStack"
    /\ action.from_index = 0
    /\ action.to_index = 2
    /\ draft.review_stack = << "wake", "sleep", "user" >>

\* C18 witness of the ignored case: an index equal to the length of a stack
\* of three has been given.
C18_WitnessOutOfRange ==
    /\ action.type = "ReorderReviewStack"
    /\ action.from_index = 3
    /\ Len(draft.review_stack) = 3
    /\ ~ panicked

\* C19: ClearDraft, reduced in any state, yields the canonical empty draft,
\* content "", type Query, review_stack ["user"], empty metadata, equal to
\* the draft of the default state; it emits no effect and changes no field
\* outside the draft.
C19_ClearDraftResets ==
    [][ (action'.type = "ClearDraft")
            => /\ draft'.content = ""
               /\ draft'.interaction_type = "Query"
               /\ draft'.review_stack = << "user" >>
               /\ DOMAIN draft'.metadata = {}
               /\ DOMAIN draft' = { "content", "interaction_type",
                                    "review_stack", "metadata" }
               /\ draft' = EmptyDraft
               /\ effects' = << >>
               /\ UNCHANGED << session_id, interactions, queue_status,
                               pending_reviews, connected, error >> ]_vars

\* C19 witness: the draft has been cleared in a connected session that shows
\* an error and holds a stored interaction.
C19_Witness ==
    /\ action.type = "ClearDraft"
    /\ draft = EmptyDraft
    /\ connected
    /\ error # None
    /\ interactions # EmptyMap

\* The ids of a list of interactions.
Ids(list) == { list[n].id : n \in DOMAIN list }

\* The ids get_processing, get_completed and get_review_queue return in the
\* current state.
ProcessingIds == Ids(GetProcessing(interactions, bucket_order))

CompletedIds == Ids(GetCompleted(interactions, bucket_order))

ReviewQueueIds ==
    LET q == GetReviewQueue(interactions, bucket_order)
    IN  { q[n] : n \in DOMAIN q }

\* The ids of the stored interactions that satisfy Test.
StoredIds(Test(_)) ==
    { interactions[k].id : k \in { x \in DOMAIN interactions : Test(interactions[x]) } }

\* get_processing and get_completed return what their descriptions say,
\* each interaction once, and the three results are pairwise disjoint.
ProcessingAndCompletedAsDescribed ==
    /\ ProcessingIds = StoredIds(LAMBDA i : i.needs_work)
    /\ CompletedIds = StoredIds(LAMBDA i : ~ i.needs_work /\ i.review_stack = << >>)
    /\ Len(GetProcessing(interactions, bucket_order)) = Cardinality(ProcessingIds)
    /\ Len(GetCompleted(interactions, bucket_order)) = Cardinality(CompletedIds)
    /\ ProcessingIds \cap CompletedIds = {}
    /\ ProcessingIds \cap ReviewQueueIds = {}
    /\ CompletedIds \cap ReviewQueueIds = {}

\* C20, as stated: get_processing returns exactly the interactions with
\* needs_work true, get_completed exactly those with needs_work false and an
\* empty review_stack, get_review_queue exactly those with needs_work false
\* whose review_stack has the local user as its FIRST element; the three are
\* pairwise disjoint.
C20_ReviewQueueIsHeadOfStack ==
    /\ ProcessingAndCompletedAsDescribed
    /\ ReviewQueueIds =
          StoredIds(LAMBDA i : /\ ~ i.needs_work
                               /\ Len(i.review_stack) > 0
                               /\ i.review_stack[1] = "user")

\* C20, amended: get_processing returns exactly the interactions with
\* needs_work true, get_completed exactly those with needs_work false and an
\* empty review_stack, get_review_queue exactly those with needs_work false
\* whose review_stack has the local user as its LAST element; the three are
\* pairwise disjoint.
C20_AccessorsPartition ==
    /\ ProcessingAndCompletedAsDescribed
    /\ ReviewQueueIds =
          StoredIds(LAMBDA i : /\ ~ i.needs_work
                               /\ Len(i.review_stack) > 0
                               /\ i.review_stack[Len(i.review_stack)] = "user")

\* C20 witness: one interaction is in the review queue with the local user
\* behind another reviewer, the other is being processed, none is completed.
C20_Witness ==
    /\ DOMAIN interactions = { "i1", "i2" }
    /\ interactions["i1"].review_stack = << "wake", "user" >>
    /\ ReviewQueueIds = { "i1" }
    /\ ProcessingIds = { "i2" }
    /\ CompletedIds = {}

\* C20 witness of a completed interaction next to one in the review queue.
C20_WitnessCompleted ==
    /\ CompletedIds = { "i1" }
    /\ ReviewQueueIds = { "i2" }
    /\ ProcessingIds = {}

\* C21, as stated: the reducer is a deterministic function of state and
\* action; the interactions left by an InteractionProcessing or
\* InteractionCompleted reduction, history entries included, are the same
\* whenever the reduction runs.
C21_ReduceIsDeterministic ==
    [][ /\ (action'.type = "InteractionProcessing")
            => \A now \in ClockProfile.clock :
                  interactions' = AfterProcessing(interactions,
                                      action'.interaction_id,
                                      action'.agent_id, now)
        /\ (action'.type = "InteractionCompleted")
            => \A now \in ClockProfile.clock :
                  interactions' = AfterCompleted(interactions,
                                      action'.interaction_id,
                                      action'.result, now) ]_vars

\* a stands before b in the sequence.
Before(seq, a, b) ==
    \E m, n \in DOMAIN seq : m < n /\ seq[m] = a /\ seq[n] = b

\* C22, as stated: a reduction that does not change which interactions are
\* actionable by the local user leaves pending_reviews unchanged, order
\* included, and ids that stay actionable keep their relative order when
\* another id enters or leaves the index.
C22_PendingReviewsOrderStable ==
    [][ /\ (PendingIds' = PendingIds) => pending_reviews' = pending_reviews
        /\ \A a, b \in PendingIds \cap PendingIds' :
              Before(pending_reviews, a, b) <=> Before(pending_reviews', a, b)
      ]_vars

\* The action is ClearError, Connected, InteractionSubmitted(Ok) or
\* ReviewSubmitted(Ok).
ClearsError(a) ==
    \/ a.type \in { "ClearError", "Connected" }
    \/ /\ a.type \in { "InteractionSubmitted", "ReviewSubmitted" }
       /\ a.ok

\* C23: once error is Some(...), it returns to None only through ClearError,
\* Connected, InteractionSubmitted(Ok) or ReviewSubmitted(Ok); across every
\* other action it stays Some(...).
C23_ErrorStaysUntilCleared ==
    [][ (error # None /\ error' = None) => ClearsError(action') ]_vars

\* C23 witness: an error set earlier is still shown after a review request
\* has been emitted in a connected session.
C23_Witness ==
    /\ action.type = "SubmitReview"
    /\ effects # << >>
    /\ connected
    /\ error = Some("Network error")

\* The error an action writes, as far as the action alone tells; actions
\* that never write the error give the value prev.
ErrorWrittenBy(a, prev) ==
    CASE a.type = "SetError" -> Some(a.message)
      [] a.type \in { "ClearError", "Connected" } -> None
      [] a.type \in { "InteractionSubmitted", "ReviewSubmitted" } ->
            IF a.ok THEN None ELSE Some(a.error)
      [] a.type = "Disconnected" ->
            IF a.reason # None THEN Some("Disconnected: " \o a.reason[1])
            ELSE prev
      [] a.type = "SubmitInteraction" -> Some("Not connected to server")
      [] OTHER -> prev

\* C24: SetError(m) yields error == Some(m) and ClearError yields
\* error == None whatever the previous value, and whenever a reduction
\* changes error the new value is the one its action writes, independent of
\* the earlier errors.
C24_ErrorIsLastWriteWins ==
    [][ /\ (action'.type = "SetError") => error' = Some(action'.message)
        /\ (action'.type = "ClearError") => error' = None
        /\ (action'.type \in { "SetError", "ClearError" })
              => /\ effects' = << >>
                 /\ UNCHANGED << session_id, interactions, draft,
                                 queue_status, pending_reviews, connected >>
        /\ (error' # error) => error' = ErrorWrittenBy(action', error)
      ]_vars

\* C24 witness: SetError has written the second message over whatever was
\* shown, in a disconnected session with a draft in progress.
C24_Witness ==
    /\ action.type = "SetError"
    /\ action.message = "Review failed"
    /\ error = Some("Review failed")
    /\ ~ connected
    /\ draft.content = "hi"
    /\ queue_status # None

\* C30: ReviewSubmitted(Ok) sets error to None and ReviewSubmitted(Err(e))
\* sets error to Some(e); neither emits an effect nor changes interactions,
\* the draft, connected or queue_status.
C30_ReviewSubmittedSetsError ==
    [][ (action'.type = "ReviewSubmitted")
            => /\ error' = IF action'.ok THEN None ELSE Some(action'.error)
               /\ effects' = << >>
               /\ UNCHANGED << session_id, interactions, draft, queue_status,
                               pending_reviews, connected >> ]_vars

\* C30 witness: a failed review has been reduced; the reviewed interaction
\* keeps its review stack and the draft its content.
C30_Witness ==
    /\ action.type = "ReviewSubmitted"
    /\ ~ action.ok
    /\ error = Some("Review failed")
    /\ "i1" \in DOMAIN interactions
    /\ interactions["i1"].review_stack = << "user" >>
    /\ draft.content = "hello"
    /\ connected

\* The actions that edit the draft.
DraftEdits ==
    { "UpdateDraftContent", "SetDraftType", "AddToReviewStack",
      "RemoveFromReviewStack", "ReorderReviewStack", "SetDraftMetadata",
      "ClearDraft" }

\* The submit request for the draft d of session sid.
SubmitRequest(sid, d) ==
    [ type |-> "SubmitInteraction", session_id |-> sid,
      content |-> d.content, interaction_type |-> d.interaction_type,
      metadata |-> d.metadata ]

\* The action is InteractionSubmitted(Ok(_)).
IsSubmittedOk(a) == a.type = "InteractionSubmitted" /\ a.ok

\* The action is InteractionSubmitted(Err(_)).
IsSubmittedErr(a) == a.type = "InteractionSubmitted" /\ ~ a.ok

\* C25: retry after failure.  (1) InteractionSubmitted(Err(e)) reduced right
\* after a SubmitInteraction that emitted a request leaves a state in which
\* SubmitInteraction emits that same request; (2) so does every later action
\* that is neither a draft edit, nor Disconnected, nor the successful
\* response; (3) a SubmitInteraction reduced after the failure, connected and
\* with a non-empty draft, emits the request with the draft's content, type
\* and metadata; (4) a following InteractionSubmitted(Ok(i)) clears
\* draft.content and error and stores i.
C25_RetryAfterFailure ==
    [][ /\ (action.type = "SubmitInteraction" /\ effects # << >>
               /\ IsSubmittedErr(action'))
            => /\ error' = Some(action'.error)
               /\ SubmitInteractionEffects(session_id', draft', connected')
                     = effects
        /\ (/\ draft.content # ""
            /\ connected
            /\ action'.type \notin DraftEdits \cup { "Disconnected" }
            /\ ~ IsSubmittedOk(action'))
            => /\ draft' = draft
               /\ connected'
               /\ session_id' = session_id
        /\ (action'.type = "SubmitInteraction" /\ connected
               /\ draft.content # "")
            => /\ effects' = << SubmitRequest(session_id, draft) >>
               /\ draft' = draft
        /\ (action.type = "SubmitInteraction" /\ effects # << >>
               /\ IsSubmittedOk(action'))
            => /\ draft'.content = ""
               /\ error' = None
               /\ action'.interaction.id \in DOMAIN interactions'
               /\ interactions'[action'.interaction.id] = action'.interaction
      ]_vars

\* C25 witness: the draft has been submitted again, with its content, type
\* and metadata, while the error of the failed submission is still shown.
C25_Witness ==
    /\ action.type = "SubmitInteraction"
    /\ error = Some("Network error")
    /\ connected
    /\ draft.metadata # EmptyMap
    /\ effects = << [ type |-> "SubmitInteraction",
                      session_id |-> "default-session",
                      content |-> "hello", interaction_type |-> "Action",
                      metadata |-> draft.metadata ] >>

\* C26: push/response race.  An InteractionProcessing push for an unknown id
\* is absorbed: no field changes, no effect, no error.  When the
\* InteractionSubmitted(Ok(i)) response with the same id follows it, error is
\* None and i is stored.  When the response comes first and the push
\* follows, error stays None and the id stays stored, its history one
\* processing event longer.
C26_PushResponseRace ==
    [][ /\ (/\ action'.type = "InteractionProcessing"
            /\ action'.interaction_id \notin DOMAIN interactions)
            => /\ FieldsUnchanged
               /\ pending_reviews' = pending_reviews
               /\ effects' = << >>
        /\ (/\ action.type = "InteractionProcessing"
            /\ action.interaction_id \notin DOMAIN interactions
            /\ IsSubmittedOk(action')
            /\ action'.interaction.id = action.interaction_id)
            => /\ error' = None
               /\ action.interaction_id \in DOMAIN interactions'
               /\ interactions'[action.interaction_id] = action'.interaction
        /\ (/\ IsSubmittedOk(action)
            /\ action'.type = "InteractionProcessing"
            /\ action'.interaction_id = action.interaction.id)
            => LET id == action'.interaction_id
               IN  /\ error' = None
                   /\ id \in DOMAIN interactions'
                   /\ Len(interactions'[id].history) = 1
                   /\ interactions'[id].history[1].action = "processing"
                   /\ interactions'[id] =
                        [ action.interaction EXCEPT
                            !.history = interactions'[id].history ]
      ]_vars

\* C26 witness: the push for the second interaction has been reduced after
\* the interaction was stored; it shows as one processing event and no error.
C26_Witness ==
    /\ action.type = "InteractionProcessing"
    /\ action.interaction_id = "i2"
    /\ "i2" \in DOMAIN interactions
    /\ Len(interactions["i2"].history) = 1
    /\ interactions["i2"].history[1].action = "processing"
    /\ error = None

\* C26 witness of the other order: the response for the second interaction
\* has been reduced after a push for it was absorbed.
C26_WitnessPushFirst ==
    /\ IsSubmittedOk(action)
    /\ action.interaction.id = "i2"
    /\ interactions["i2"] = action.interaction
    /\ interactions["i2"].history = << >>
    /\ "i1" \notin DOMAIN interactions
    /\ error = None

\* The sequence old is a prefix of the sequence new.
IsPrefix(old, new) ==
    /\ Len(old) <= Len(new)
    /\ SubSeq(new, 1, Len(old)) = old

\* The action stores a whole interaction under id: InteractionPosted or
\* InteractionSubmitted(Ok) carrying that id.
IsUpsertOf(a, id) ==
    /\ \/ a.type = "InteractionPosted"
       \/ IsSubmittedOk(a)
    /\ a.interaction.id = id

\* C27, as stated: for every id stored before and after a reduction, the
\* history before the reduction is a prefix of the history after it, whatever
\* the action.
C27_HistoryIsAppendOnly ==
    [][ \A id \in DOMAIN interactions \cap DOMAIN interactions' :
            IsPrefix(interactions[id].history, interactions'[id].history)
      ]_vars

\* C27, amended: for every id stored before and after a reduction that is
\* not an upsert of that id, the history before is a prefix of the history
\* after and at most one event longer; an upsert of the id replaces the
\* history by the one the stored interaction carries.
C27_HistoryGrowsUnlessReplaced ==
    [][ \A id \in DOMAIN interactions \cap DOMAIN interactions' :
            /\ ~ IsUpsertOf(action', id)
                => /\ IsPrefix(interactions[id].history,
                               interactions'[id].history)
                   /\ Len(interactions'[id].history)
                         <= Len(interactions[id].history) + 1
            /\ IsUpsertOf(action', id)
                => interactions'[id].history = action'.interaction.history
      ]_vars

\* C27 witness: a processing event has been appended behind a completion of
\* another time in the life of the first interaction.
C27_Witness ==
    /\ action.type = "InteractionProcessing"
    /\ action.interaction_id = "i1"
    /\ "i1" \in DOMAIN interactions
    /\ Len(interactions["i1"].history) = 2
    /\ interactions["i1"].history[1].action = "completed"
    /\ interactions["i1"].history[2].action = "processing"

\* C27 witness of the replaced history: a push has stored the first
\* interaction anew, without events, next to a second one that keeps its two.
C27_WitnessReplaced ==
    /\ action.type = "InteractionPosted"
    /\ action.interaction.id = "i1"
    /\ interactions["i1"].history = << >>
    /\ "i2" \in DOMAIN interactions
    /\ Len(interactions["i2"].history) = 2

\* The review_stack of a stored interaction changes in an upsert of its id
\* only.
StoredStacksChangeByUpsertOnly ==
    \A id \in DOMAIN interactions \cap DOMAIN interactions' :
        interactions'[id].review_stack # interactions[id].review_stack
            => IsUpsertOf(action', id)

\* The interaction id is Completed after the step and was not before.
BecomesCompleted(id) ==
    /\ id \in DOMAIN interactions'
    /\ IsCompleted(interactions'[id])
    /\ id \in DOMAIN interactions => ~ IsCompleted(interactions[id])

\* C28, as stated: the review_stack of a stored interaction changes only in
\* an upsert of its id, and an interaction becomes Completed only in an
\* upsert that carries an empty stack.
C28_CompletedOnlyByPush ==
    [][ /\ StoredStacksChangeByUpsertOnly
        /\ \A id \in DOMAIN interactions' :
              BecomesCompleted(id)
                  => /\ IsUpsertOf(action', id)
                     /\ action'.interaction.review_stack = << >>
      ]_vars

\* C28, amended: the review_stack of a stored interaction changes only in an
\* upsert of its id, so a stored stack becomes empty only in an upsert that
\* carries an empty stack; an interaction becomes Completed in such an upsert
\* or in an InteractionCompleted for an interaction whose stored stack an
\* earlier upsert had left empty.
C28_StacksChangeOnlyByUpsert ==
    [][ /\ StoredStacksChangeByUpsertOnly
        /\ \A id \in DOMAIN interactions' :
              /\ (/\ interactions'[id].review_stack = << >>
                  /\ id \in DOMAIN interactions
                        => interactions[id].review_stack # << >>)
                    => /\ IsUpsertOf(action', id)
                       /\ action'.interaction.review_stack = << >>
              /\ BecomesCompleted(id)
                    => \/ /\ IsUpsertOf(action', id)
                          /\ action'.interaction.review_stack = << >>
                          /\ ~ action'.interaction.needs_work
                       \/ /\ action'.type = "InteractionCompleted"
                          /\ action'.interaction_id = id
                          /\ id \in DOMAIN interactions
                          /\ interactions[id].review_stack = << >>
      ]_vars

\* C28 witness: a review of the stored interaction has been answered by the
\* server and the interaction still has its reviewer.
C28_Witness ==
    /\ action.type = "ReviewSubmitted"
    /\ action.ok
    /\ "i1" \in DOMAIN interactions
    /\ ~ interactions["i1"].needs_work
    /\ interactions["i1"].review_stack = << "user" >>
    /\ Len(interactions["i1"].history) = 1
    /\ pending_reviews = << "i1" >>

\* C28 witness of the completion without a push: InteractionCompleted has
\* made an interaction Completed whose stack was stored empty.
C28_WitnessCompletedInPlace ==
    /\ action.type = "InteractionCompleted"
    /\ "i1" \in DOMAIN interactions
    /\ IsCompleted(interactions["i1"])
    /\ Len(interactions["i1"].history) = 1

\* The draft after the step is the draft before it with the field f set to
\* its new value: no other field changes.
OnlyDraftField(f) ==
    \A g \in DOMAIN draft : g # f => draft'[g] = draft[g]

\* C29: each draft edit emits no effect and touches one draft field:
\* UpdateDraftContent only content (set to the given text), SetDraftType only
\* interaction_type, AddToReviewStack, RemoveFromReviewStack and
\* ReorderReviewStack only review_stack, SetDraftMetadata only the entry for
\* its key in metadata; interactions, queue_status, connected, error,
\* session_id and pending_reviews are unchanged.
C29_DraftEditsTouchOneField ==
    [][ (action'.type \in DraftEdits \ { "ClearDraft" })
            => /\ effects' = << >>
               /\ UNCHANGED << session_id, interactions, queue_status,
                               pending_reviews, connected, error >>
               /\ DOMAIN draft' = DOMAIN draft
               /\ (action'.type = "UpdateDraftContent")
                     => /\ OnlyDraftField("content")
                        /\ draft'.content = action'.content
               /\ (action'.type = "SetDraftType")
                     => /\ OnlyDraftField("interaction_type")
                        /\ draft'.interaction_type = action'.interaction_type
               /\ (action'.type \in { "AddToReviewStack",
                                      "RemoveFromReviewStack",
                                      "ReorderReviewStack" })
                     => OnlyDraftField("review_stack")
               /\ (action'.type = "SetDraftMetadata")
                     => /\ OnlyDraftField("metadata")
                        /\ DOMAIN draft'.metadata =
                              DOMAIN draft.metadata \cup { action'.key }
                        /\ draft'.metadata[action'.key] = action'.value
                        /\ \A k \in DOMAIN draft.metadata :
                              k # action'.key
                                  => draft'.metadata[k] = draft.metadata[k]
      ]_vars

\* C29 witness: a second metadata entry has been set next to the first, in a
\* draft whose content, type and reviewers had all been edited.
C29_Witness ==
    /\ action.type = "SetDraftMetadata"
    /\ action.key = "lang"
    /\ DOMAIN draft.metadata = { "topic", "lang" }
    /\ draft.metadata["topic"] = "rust"
    /\ draft.metadata["lang"] = "go"
    /\ draft.content = "hi"
    /\ draft.interaction_type = "Action"
    /\ draft.review_stack = << "wake", "user" >>

\* The last step of connect_sse passed a message of the given type to tx.send.
SseSent(type) == \E n \in DOMAIN sse_sent : sse_sent[n].type = type

\* C31, as stated: whenever the connection fails or drops (the request fails,
\* a chunk is an error, or the stream ends), connect_sse sends an Error
\* message before it sleeps and connects again.
C31_EveryDropIsAnnounced ==
    [][ (sse_pc # "sleep" /\ sse_pc' = "sleep") => SseSent("Error")' ]_vars

\* The text holds, from position n on, a complete frame "data: " + a JSON
\* object with a "connected" key + the separator, at the start of a frame.
ConfirmingFrameAt(text, n) ==
    /\ n + 2 <= Len(text)
    /\ n = 1 \/ text[n - 1] = FrameEnd
    /\ text[n] = "data: "
    /\ text[n + 1] = "J_connected"
    /\ text[n + 2] = FrameEnd

\* The step is one of the host's: it takes a message from the channel or lets
\* go of the Receiver.
HostStep ==
    \/ sse_receiver' # sse_receiver
    \/ Len(sse_channel') < Len(sse_channel)

\* C32: Connected is sent only in a step that reads a chunk of the current
\* connection and completes a confirming frame with it, once per such frame;
\* no Connected is sent when a request fails or is answered, when the stream
\* fails or ends, or after the sleep, and no text of an earlier connection is
\* left in the buffer.
C32_ConnectedOnlyOnConfirmingFrame ==
    [][ /\ (SseSent("Connected")' /\ ~ HostStep)
            => /\ sse_pc = "stream"
               /\ sse_step'.type = "ChunkReceived"
               /\ sse_step'.chunk.utf8
               /\ LET text == sse_buffer \o sse_step'.chunk.text
                  IN  Cardinality({ n \in DOMAIN sse_sent' :
                                      sse_sent'[n] = SseConnected })
                        = Cardinality({ n \in DOMAIN text :
                                          ConfirmingFrameAt(text, n) })
        /\ sse_pc' # "stream" => sse_buffer' = << >>
        /\ (sse_pc # "stream" /\ sse_pc' = "stream") => sse_buffer' = << >>
      ]_vars

\* C32 witness: after a refused request and a new attempt, the second half
\* of a confirming frame has arrived and Connected follows the Error in the
\* channel.
C32_Witness ==
    /\ sse_step.type = "ChunkReceived"
    /\ sse_step.chunk.text = << "J_connected", FrameEnd >>
    /\ sse_sent = << SseConnected >>
    /\ sse_channel = << SseError("connection refused"), SseConnected >>
    /\ sse_buffer = << >>

\* C33: connect_sse is always requesting, reading or sleeping, every failed
\* request, failed chunk and ended stream leads to the sleep, and every sleep
\* is followed by a new request, also after MaxFailures failures in a row and
\* without a Receiver.
C33_RetriesForever ==
    /\ [](sse_pc \in { "request", "stream", "sleep" })
    /\ [](sse_step.type \in { "RequestFailed", "ChunkFailed", "StreamEnded" }
             => sse_pc = "sleep")
    /\ (sse_pc = "sleep") ~> (sse_pc = "request")

\* C33 witness: a new request is made after MaxFailures failed requests in a
\* row, with the Receiver gone.
C33_Witness ==
    /\ sse_pc = "request"
    /\ sse_step.type = "BackoffElapsed"
    /\ sse_step.secs = 5
    /\ sse_failures = MaxFailures
    /\ ~ sse_receiver

----------------------------------------------------------------------------
(* The draft's review stack *)

\* C34: in every state reachable from the default state through reduce,
\* draft.review_stack holds no reviewer id twice.
C34_DraftStackHasNoDuplicate ==
    \A n, m \in DOMAIN draft.review_stack :
        draft.review_stack[n] = draft.review_stack[m] => n = m

\* C34 witness: a full stack of three reviewers has just been reordered.
C34_Witness ==
    /\ action.type = "ReorderReviewStack"
    /\ draft.review_stack = << "sleep", "user", "wake" >>
    /\ ~ panicked

----------------------------------------------------------------------------
(* Requests and the connection *)

\* The effects hold a request of this type.
Emits(effs, type) == \E n \in DOMAIN effs : effs[n].type = type

C36_ConnectedFollowsConnectionActions ==
    [][ /\ action.type = "none" => ~ connected
        /\ action'.type = "Connected" => connected'
        /\ action'.type = "Disconnected" => ~ connected'
        /\ action'.type \notin { "Connected", "Disconnected" }
            => connected' = connected ]_vars

\* C36 witness: a failed review result arrived on a connected session and
\* left it connected.
C36_Witness ==
    /\ action.type = "ReviewSubmitted"
    /\ ~ action.ok
    /\ connected
    /\ queue_status # None
    /\ draft.content = "hi"

\* C37: every reduction emits at most one effect, and only SubmitInteraction
\* (a submit request), SubmitReview (a review request), Connect
\* (ConnectToStream) and Connected (FetchQueueStatus) emit one; every other
\* action emits the empty list.
C37_AtMostOneEffectFromFourActions ==
    [][ /\ Len(effects') <= 1
        /\ effects' # << >>
            => \/ /\ action'.type = "SubmitInteraction"
                  /\ effects'[1].type = "SubmitInteraction"
               \/ /\ action'.type = "SubmitReview"
                  /\ effects'[1].type = "SubmitReview"
               \/ /\ action'.type = "Connect"
                  /\ effects'[1].type = "ConnectToStream"
               \/ /\ action'.type = "Connected"
                  /\ effects'[1].type = "FetchQueueStatus" ]_vars

\* C37 witness: the failure of a submission arrived on a connected session
\* with a non-empty draft and emitted nothing.
C37_Witness ==
    /\ IsSubmittedErr(action)
    /\ connected
    /\ draft.content = "hello"
    /\ queue_status # None
    /\ effects = << >>

----------------------------------------------------------------------------
(* The interactions map *)

\* C38: no action removes a key of interactions; a key is added and an entry
\* is replaced only by InteractionPosted and InteractionSubmitted(Ok) of that
\* id (InteractionProcessing and InteractionCompleted change the entry of
\* their id in place); every entry is stored under its own id.
C38_MapGrowsKeyedById ==
    [][ /\ DOMAIN interactions \subseteq DOMAIN interactions'
        /\ \A k \in DOMAIN interactions' :
              /\ interactions'[k].id = k
              /\ k \notin DOMAIN interactions => IsUpsertOf(action', k)
              /\ (k \in DOMAIN interactions /\ ~ IsUpsertOf(action', k)
                    /\ interactions'[k] # interactions[k])
                  => /\ action'.type \in { "InteractionProcessing",
                                           "InteractionCompleted" }
                     /\ action'.interaction_id = k
                     /\ [ interactions'[k] EXCEPT
                            !.needs_work = interactions[k].needs_work,
                            !.history = interactions[k].history ]
                          = interactions[k] ]_vars

\* C38 witness: a submission result stored a second interaction beside one
\* that already has an event in its history.
C38_Witness ==
    /\ IsSubmittedOk(action)
    /\ action.interaction.id = "i2"
    /\ DOMAIN interactions = { "i1", "i2" }
    /\ interactions["i2"] = action.interaction
    /\ Len(interactions["i1"].history) = 1

----------------------------------------------------------------------------
(* The draft's content *)

\* C39: draft.content changes only through UpdateDraftContent, ClearDraft and
\* InteractionSubmitted(Ok); InteractionSubmitted(Ok) reduced right after an
\* UpdateDraftContent that typed new content sets it to the empty string.
C39_ContentChangesByThreeActions ==
    [][ /\ draft'.content # draft.content
            => \/ action'.type \in { "UpdateDraftContent", "ClearDraft" }
               \/ IsSubmittedOk(action')
        /\ (action.type = "UpdateDraftContent" /\ IsSubmittedOk(action'))
            => draft'.content = "" ]_vars

\* C39 witness: the response arrived after new content was typed and the
\* content is gone while type and metadata stay.
C39_Witness ==
    /\ IsSubmittedOk(action)
    /\ draft.content = ""
    /\ draft.interaction_type = "Action"
    /\ draft.metadata # EmptyMap
    /\ connected
    /\ queue_status # None

====
